---- MODULE Spec2Model ----
(***************************************************************************)
(* Model of the head-to-head consolidation lambda:                         *)
(*   src/src/utils/upsert_on_head_to_head.py  schema, validator, merges    *)
(*   src/src/utils/create_tables.py           the three delta producers    *)
(*   src/src/app.py                           process_record, the handler  *)
(*                                                                         *)
(* A table (polars DataFrame) is a record                                  *)
(*   cols : the column names, in order                                     *)
(*   dt   : column name -> dtype ("Int64", "Float64", "String", "Null")    *)
(*   rows : the set of rows, each a function column name -> value          *)
(* A value is Null or a natural number.  A String value is the rank of the *)
(* string in lexicographic order, which is the order polars sorts by.      *)
(* A Float64 value n stands for the float n; Float64 sums are rounded to   *)
(* the mantissa (RoundFloat), scaled down from 53 bits to MantBits.        *)
(* Rows are kept as a set: the keys of a base and of a delta are unique,   *)
(* so no merge yields the same row twice.                                  *)
(*                                                                         *)
(* Specifications                                                          *)
(*   Spec       lambda_handler fed with records of every kind and shape    *)
(*   SpecOdds   the handler fed with odds files only, from the empty table *)
(*   SpecCalls  the merges and the validator called directly on a base     *)
(*              table and the delta of a raw file                          *)
(*   SpecRace   two callers of process_record on the one stored table,     *)
(*              their reads and writes interleaved                         *)
(***************************************************************************)
EXTENDS Integers, Sequences, FiniteSets, TLC

\* ------------------------------------------------------------------ bounds
MaxMatch == 2      \* match ids 1..MaxMatch
MaxVal   == 1      \* non-null attribute, quote and amount values 1..MaxVal
MaxTs    == 3      \* ModifiedOn timestamps 1..MaxTs
MaxMsgs  == 3      \* messages handled in one run of the model
MantBits == 2      \* bits of mantissa kept by a Float64 sum in the model

Matches == 1..MaxMatch
Vals    == 1..MaxVal
Stamps  == 1..MaxTs

\* ------------------------------------------------------------------ values
\* polars null (pl.lit(None), a missing join partner)
Null == -1

Range(s) == {s[i] : i \in 1..Len(s)}

Min(S) == CHOOSE x \in S : \A y \in S : x <= y

\* the sum of two values, a null counting as absent
null_sum(a, b) == IF a = Null THEN b ELSE IF b = Null THEN a ELSE a + b

\* the first argument, null or not
first_given(a, b) == a

\* pl.coalesce([a, b]): the first non-null
coalesce(a, b) == IF a /= Null THEN a ELSE b

RECURSIVE Ulp(_)
\* the spacing of the representable Float64 numbers around n >= 0
Ulp(n) == IF n < 2^MantBits THEN 1 ELSE 2 * Ulp(n \div 2)

\* round to nearest, ties to the even mantissa (IEEE 754 default)
RoundFloat(n) ==
    LET u == Ulp(n)
        q == n \div u
        r == n % u
    IN  IF 2 * r < u THEN q * u
        ELSE IF 2 * r > u THEN (q + 1) * u
        ELSE IF q % 2 = 0 THEN q * u ELSE (q + 1) * u

\* the right operand alone: the delta replaces the total
take_delta(x, y, dtype) == y

\* the left operand alone: the total ignores the delta
keep_base(x, y, dtype) == x

\* the + of two polars columns: exact on Int64, rounded on Float64
Add(x, y, dtype) == IF dtype = "Float64" THEN RoundFloat(x + y) ELSE x + y

\* pl.col(c).cast(tgt) on one value: a null stays null; a number is cast
\* between Int64 and Float64, which keeps the whole numbers of the model.
CastValue(v, from, to) == IF v = Null THEN Null ELSE v

\* ------------------------------------------------------------------ schema
\* The dict head_to_head_schema() returns: its keys in order (cols) and the
\* dtype of each (dt).
head_to_head_schema ==
    LET items ==
          << <<"MatchId", "Int64">>,        <<"BetType", "Int64">>,
             <<"HomeId", "Int64">>,         <<"AwayId", "Int64">>,
             <<"HtHomeScore", "Int64">>,    <<"HtAwayScore", "Int64">>,
             <<"FinalHomeScore", "Int64">>, <<"FinalAwayScore", "Int64">>,
             <<"EventDate", "String">>,     <<"KickOffTime", "String">>,
             <<"LeagueId", "Int64">>,       <<"SportId", "Int64">>,
             <<"FirstOddsId", "Int64">>,    <<"LastOddsId", "Int64">>,
             <<"FirstOdds1", "Float64">>,   <<"LastOdds1", "Float64">>,
             <<"FirstOdds2", "Float64">>,   <<"LastOdds2", "Float64">>,
             <<"FirstCom1", "Float64">>,    <<"FirstCom2", "Float64">>,
             <<"FirstComx", "Float64">>,    <<"LastCom1", "Float64">>,
             <<"LastCom2", "Float64">>,     <<"LastComx", "Float64">>,
             <<"Winlost_SGD", "Float64">>,  <<"TurnOver_SGD", "Float64">>,
             <<"ModifiedOn", "String">> >>
        names == {items[i][1] : i \in 1..Len(items)}
    IN  [cols |-> [i \in 1..Len(items) |-> items[i][1]],
         dt   |-> [c \in names |->
                     items[CHOOSE i \in 1..Len(items) : items[i][1] = c][2]]]

\* a table of the given columns, dtypes and rows
Table(cols, dt, rows) == [cols |-> cols, dt |-> dt, rows |-> rows]

\* pl.LazyFrame(schema=head_to_head_schema()): the canonical columns, no rows
empty_head_to_head_lf ==
    Table(head_to_head_schema.cols, head_to_head_schema.dt, {})

\* ------------------------------------------------------------------ results
\* What a call gives: a table (err = "ok"), or the exception it raised.
NoTable == Table(<<>>, [c \in {} |-> "Null"], {})
Ok(t) == [err |-> "ok", tbl |-> t]
Raise(e) == [err |-> e, tbl |-> NoTable]

ErrMissingColumns    == "ValueError: Faltan columnas requeridas"
ErrTypeMismatch      == "TypeError: Tipos no coinciden"
ErrUnexpectedColumns == "ValueError: Columnas no esperadas"
ErrMissingKey        == "ValueError: 'delta' debe tener la clave"
ErrMissingPk         == "ValueError: Falta la PK"
ErrMissingTs         == "ValueError: Falta la columna de timestamp"
ErrConcatSchema      == "SchemaError: concat dtypes differ"

\* ---------------------------------------------------------------- validator
\* the validator with its first two checks in the other order
validate_types_first(df, esquema, permitir_extras) ==
    LET columnas == esquema.cols
        canon    == Range(columnas)
        present  == Range(df.cols)
        faltan   == SelectSeq(columnas, LAMBDA c : c \notin present)
        malos    == SelectSeq(columnas,
                              LAMBDA c : c \in present /\ df.dt[c] /= esquema.dt[c])
        extras   == SelectSeq(df.cols, LAMBDA c : c \notin canon)
    IN  IF malos /= <<>> THEN Raise(ErrTypeMismatch)
        ELSE IF faltan /= <<>> THEN Raise(ErrMissingColumns)
        ELSE IF extras /= <<>> /\ ~permitir_extras THEN Raise(ErrUnexpectedColumns)
        ELSE Ok(Table(columnas \o extras, df.dt, df.rows))

\* ordenar_y_validar(df, esquema, permitir_extras=...)
ordenar_y_validar(df, esquema, permitir_extras) ==
    LET columnas == esquema.cols
        canon    == Range(columnas)
        present  == Range(df.cols)
        faltan   == SelectSeq(columnas, LAMBDA c : c \notin present)
        malos    == SelectSeq(columnas, LAMBDA c : df.dt[c] /= esquema.dt[c])
        extras   == SelectSeq(df.cols, LAMBDA c : c \notin canon)
    IN  IF faltan /= <<>> THEN Raise(ErrMissingColumns)
        ELSE IF malos /= <<>> THEN Raise(ErrTypeMismatch)
        ELSE IF extras /= <<>> /\ ~permitir_extras THEN Raise(ErrUnexpectedColumns)
        ELSE Ok(Table(columnas \o extras, df.dt, df.rows))

\* ------------------------------------------------------------ column aligner
NullRow(cols) == [c \in cols |-> Null]

\* base.with_columns(pl.lit(None, dtype=key_dtype).alias(key)) when base lacks
\* the key column
EnsureKey(base, delta, key) ==
    IF key \in Range(base.cols) THEN base
    ELSE LET cs == Range(base.cols) \cup {key}
         IN  Table(Append(base.cols, key),
                   [c \in cs |-> IF c = key THEN delta.dt[key] ELSE base.dt[c]],
                   {[c \in cs |-> IF c = key THEN Null ELSE r[c]] : r \in base.rows})

\* overlap = [c for c in base.columns if c in delta.columns and c != key]
Overlap(base, delta, key) ==
    LET dc == Range(delta.cols)
    IN  SelectSeq(base.cols, LAMBDA c : c \in dc /\ c /= key)

\* delta.with_columns(casts): the key and the overlapping columns take base's dtype
CastToBase(base, delta, key) ==
    LET tgt == {key} \cup Range(Overlap(base, delta, key))
        cs  == Range(delta.cols)
    IN  Table(delta.cols,
              [c \in cs |-> IF c \in tgt THEN base.dt[c] ELSE delta.dt[c]],
              {[c \in cs |-> IF c \in tgt
                             THEN CastValue(r[c], delta.dt[c], base.dt[c])
                             ELSE r[c]] : r \in delta.rows})

\* how="inner": the matched pairs alone
inner_join(base, delta, key) ==
    {p \in base.rows \X delta.rows : p[1][key] /= Null /\ p[1][key] = p[2][key]}

\* a join whose keys never match: every row is paired with an all-null row
join_nothing(base, delta, key) ==
    {<<b, NullRow(Range(delta.cols))>> : b \in base.rows}
    \cup {<<NullRow(Range(base.cols)), d>> : d \in delta.rows}

\* base.join(delta, on=key, how="outer"): the pairs <<left row, right row>> of
\* the join; a row without partner is paired with an all-null row, and a null
\* key matches nothing.
OuterJoin(base, delta, key) ==
    LET bc == Range(base.cols)
        dc == Range(delta.cols)
        Match(b, d) == b[key] /= Null /\ b[key] = d[key]
    IN  {p \in base.rows \X delta.rows : Match(p[1], p[2])}
        \cup {<<b, NullRow(dc)>> :
                 b \in {x \in base.rows : \A d \in delta.rows : ~Match(x, d)}}
        \cup {<<NullRow(bc), d>> :
                 d \in {x \in delta.rows : \A b \in base.rows : ~Match(b, x)}}

\* ------------------------------------------------------------- replace-merge
upsert_match(base0, delta0, key) ==
    IF key \notin Range(delta0.cols) THEN Raise(ErrMissingKey)
    ELSE
    LET base       == EnsureKey(base0, delta0, key)
        overlap    == Overlap(base, delta0, key)
        delta      == CastToBase(base, delta0, key)
        ov         == Range(overlap)
        base_only  == SelectSeq(base.cols, LAMBDA c : c \notin ov)
        delta_only == SelectSeq(delta.cols, LAMBDA c : c \notin ov /\ c /= key)
        outcols    == base_only \o overlap \o delta_only
        cs         == Range(outcols)
        bc         == Range(base.cols)
        Resolve(b, d) ==
            [c \in cs |->
                IF c = key THEN coalesce(b[key], d[key])
                ELSE IF c \in ov THEN coalesce(d[c], b[c])
                ELSE IF c \in bc THEN b[c]
                ELSE d[c]]
        out == Table(outcols,
                     [c \in cs |-> IF c \in bc THEN base.dt[c]
                                   ELSE delta.dt[c]],
                     {Resolve(p[1], p[2]) : p \in OuterJoin(base, delta, key)})
    IN  ordenar_y_validar(out, head_to_head_schema, TRUE)

\* ------------------------------------------------------------ additive-merge
upsert_bets(base0, delta0, key) ==
    IF key \notin Range(delta0.cols) THEN Raise(ErrMissingKey)
    ELSE
    LET base       == EnsureKey(base0, delta0, key)
        overlap    == Overlap(base, delta0, key)
        delta      == CastToBase(base, delta0, key)
        ov         == Range(overlap)
        delta_only == SelectSeq(delta.cols, LAMBDA c : c \notin ov /\ c /= key)
        outcols    == base.cols \o delta_only
        cs         == Range(outcols)
        bc         == Range(base.cols)
        Sum(b, d) ==
            [c \in cs |->
                IF c = key THEN coalesce(b[key], d[key])
                ELSE IF c \in ov
                     THEN Add(coalesce(b[c], 0), coalesce(d[c], 0), base.dt[c])
                ELSE IF c \in bc THEN b[c]
                ELSE d[c]]
        out == Table(outcols,
                     [c \in cs |-> IF c \in bc THEN base.dt[c]
                                   ELSE delta.dt[c]],
                     {Sum(p[1], p[2]) : p \in OuterJoin(base, delta, key)})
    IN  ordenar_y_validar(out, head_to_head_schema, TRUE)

\* -------------------------------------------------- timestamp-arbitrated merge
\* _alinear filling the columns df lacks with 0 instead of null
alinear_zero(df, todas) ==
    LET cs == Range(todas)
        have == Range(df.cols)
    IN  Table(todas,
              [c \in cs |-> IF c \in have THEN df.dt[c] ELSE "Null"],
              {[c \in cs |-> IF c \in have THEN r[c] ELSE 0] : r \in df.rows})

\* _alinear(df): the columns of todas that df lacks are added as pl.lit(None)
alinear(df, todas) ==
    LET cs == Range(todas)
        have == Range(df.cols)
    IN  Table(todas,
              [c \in cs |-> IF c \in have THEN df.dt[c] ELSE "Null"],
              {[c \in cs |-> IF c \in have THEN r[c] ELSE Null] : r \in df.rows})

\* the aggregation with descending dropped: the oldest value of every column
sort_ascending(group, first_rows, c, ts_col, desc, keep_order) ==
    LET nn == {r \in group : r[c] /= Null}
        Before(r, q) ==
            IF r[ts_col] = q[ts_col]
            THEN IF keep_order THEN r \in first_rows \/ q \notin first_rows
                 ELSE r \notin first_rows \/ q \in first_rows
            ELSE r[ts_col] < q[ts_col]
    IN  IF nn = {} THEN Null
        ELSE Min({r[c] : r \in {x \in nn : \A q \in nn : Before(x, q)}})

\* pl.col(c).sort_by([pl.col(c).is_null(), pl.col(ts_col)],
\*                   descending=[False, desc]).first() over one group.
\* Non-null values come first, then the timestamp decides: the value of the
\* row that sorts before every other row with a value.  What polars leaves
\* open is decided by keep_order.  Rows with equal sort keys come out in the
\* order of the concat (a row of first_rows, the base, before a row of the
\* delta) when keep_order holds, and in the other order when not.  A null
\* timestamp sorts first ascending; descending it sorts first when keep_order
\* holds and last when not (the two behaviours of polars releases).
SortByFirst(group, first_rows, c, ts_col, desc, keep_order) ==
    LET nn == {r \in group : r[c] /= Null}
        Before(r, q) ==
            IF r[ts_col] = q[ts_col]
            THEN IF keep_order THEN r \in first_rows \/ q \notin first_rows
                 ELSE r \notin first_rows \/ q \in first_rows
            ELSE IF r[ts_col] = Null THEN ~desc \/ keep_order
            ELSE IF q[ts_col] = Null THEN desc /\ ~keep_order
            ELSE IF desc THEN r[ts_col] > q[ts_col]
            ELSE r[ts_col] < q[ts_col]
    IN  IF nn = {} THEN Null
        ELSE Min({r[c] : r \in {x \in nn : \A q \in nn : Before(x, q)}})

upsert_odds(df_base, df_delta, pk, ts_col, reciente, antiguo, keep_order) ==
    LET \* list({*df_base.columns, *df_delta.columns}): a set, in some order
        bcols == Range(df_base.cols)
        todas == df_base.cols \o SelectSeq(df_delta.cols, LAMBDA c : c \notin bcols)
        cs    == Range(todas)
        a     == alinear(df_base, todas)
        b     == alinear(df_delta, todas)
        \* pl.concat([a, b], how="diagonal"): b's column is appended to a's, so
        \* it must have a's dtype or be the all-null column
        clash == {c \in cs : b.dt[c] /= a.dt[c] /\ b.dt[c] /= "Null"}
        combo == a.rows \cup b.rows
        keys  == {r[pk] : r \in combo}
        \* desc = True by default and for reciente, False for antiguo
        Desc(c) == IF c \in antiguo THEN FALSE ELSE TRUE
        Agg(k) ==
            LET group == {r \in combo : r[pk] = k}
            IN  [c \in cs |->
                    IF c = pk THEN k
                    ELSE SortByFirst(group, a.rows, c, ts_col, Desc(c), keep_order)]
        resultado == Table(todas, a.dt, {Agg(k) : k \in keys})
    IN  IF pk \notin cs THEN Raise(ErrMissingPk)
        ELSE IF ts_col \notin cs THEN Raise(ErrMissingTs)
        ELSE IF clash /= {} THEN Raise(ErrConcatSchema)
        ELSE ordenar_y_validar(resultado, head_to_head_schema, TRUE)

\* ------------------------------------------------------------ delta producers
\* The rows a producer returns are a function of the raw file it reads.  A raw
\* file is summarised by: the match ids it holds rows for (keys), the values
\* its rows aggregate to, and whether its integer columns were written as
\* Float64 (raw_float), as a writer does for an integer column with gaps.
IntType(raw_float) == IF raw_float THEN "Float64" ELSE "Int64"

\* the bet type of a match's quotes: one of the two the odds filter keeps
BetTypeOf(m) == IF m % 2 = 1 THEN 5 ELSE 11

\* create_head_to_head_bets_lazy: per match, the Float64 sums TurnOver_SGD and
\* Winlost_SGD (never null: fill_null(0) before the sum)
create_head_to_head_bets_lazy(keys, amount, raw_float) ==
    LET cols == <<"MatchId", "TurnOver_SGD", "Winlost_SGD">>
    IN  Table(cols,
              [c \in Range(cols) |-> IF c = "MatchId" THEN IntType(raw_float)
                                     ELSE "Float64"],
              {[c \in Range(cols) |-> IF c = "MatchId" THEN m ELSE amount]
                 : m \in keys})

\* create_head_to_head_match_lazy: per match the latest raw row; info is the
\* value of its descriptive columns, score the value of its score columns
\* (null until the match is played)
create_head_to_head_match_lazy(keys, info, score, raw_float) ==
    LET cols == <<"HomeId", "AwayId", "MatchId", "EventDate", "KickOffTime",
                  "FinalHomeScore", "FinalAwayScore", "HtHomeScore",
                  "HtAwayScore", "LeagueId", "SportId">>
        scores == {"FinalHomeScore", "FinalAwayScore", "HtHomeScore", "HtAwayScore"}
    IN  Table(cols,
              [c \in Range(cols) |-> IF c \in {"EventDate", "KickOffTime"}
                                     THEN "String" ELSE IntType(raw_float)],
              {[c \in Range(cols) |-> IF c = "MatchId" THEN m
                                      ELSE IF c \in scores THEN score
                                      ELSE info] : m \in keys})

\* create_head_to_head_odds_lazy: per match the first pre-match quote (pre) and
\* the last live quote (live), Null when the file holds no such quote; the ids
\* stay null then, the odds and commissions are filled with 0; ModifiedOn is
\* the largest timestamp of the match's raw rows
create_head_to_head_odds_lazy(keys, pre, live, ts, raw_float) ==
    LET cols == <<"MatchId", "BetType", "FirstOddsId", "LastOddsId",
                  "FirstOdds1", "LastOdds1", "FirstOdds2", "LastOdds2",
                  "FirstCom1", "FirstCom2", "FirstComx",
                  "LastCom1", "LastCom2", "LastComx", "ModifiedOn">>
        firsts == {"FirstOdds1", "FirstOdds2", "FirstCom1", "FirstCom2", "FirstComx"}
        ints   == {"MatchId", "BetType", "FirstOddsId", "LastOddsId"}
    IN  Table(cols,
              [c \in Range(cols) |-> IF c \in ints THEN IntType(raw_float)
                                     ELSE IF c = "ModifiedOn" THEN "String"
                                     ELSE "Float64"],
              {[c \in Range(cols) |->
                    IF c = "MatchId" THEN m
                    ELSE IF c = "BetType" THEN BetTypeOf(m)
                    ELSE IF c = "FirstOddsId" THEN pre
                    ELSE IF c = "LastOddsId" THEN live
                    ELSE IF c = "ModifiedOn" THEN ts
                    ELSE IF c \in firsts THEN coalesce(pre, 0)
                    ELSE coalesce(live, 0)] : m \in keys})

\* ------------------------------------------------------------------ messages
\* One SQS record, summarised.  shape: what lambda_handler finds in it;
\* kind: decoded_key.split("/")[1]; keys, a, b, ts, raw_float: the raw file the
\* key names (see the producers); fault: the S3 call of process_record that
\* fails, if any.
Shapes == {"ok", "bad_json", "not_object", "no_records", "no_bucket_key", "no_slash"}
Kinds  == {"bets", "odds", "match_result", "other"}
Faults == {"none", "head", "collect", "write"}

Msg(shape, kind, keys, a, b, ts, raw_float, fault) ==
    [shape |-> shape, kind |-> kind, keys |-> keys, a |-> a, b |-> b, ts |-> ts,
     raw_float |-> raw_float, fault |-> fault]

\* the match ids of a raw file: the first n, for some n
KeySets == {1..n : n \in Matches}
OptVals == Vals \cup {Null}

NoMsg == Msg("none", "other", {}, Null, Null, Null, FALSE, "none")

\* a record lambda_handler does not hand to process_record
BadMsgs == {Msg(sh, "other", {}, Null, Null, Null, FALSE, "none")
              : sh \in Shapes \ {"ok"}}

OtherMsgs == {Msg("ok", "other", {}, Null, Null, Null, FALSE, f)
                : f \in {"none", "head"}}

BetsMsgs ==
    {Msg("ok", "bets", ks, a, Null, Null, FALSE, "none") : ks \in KeySets, a \in Vals}

MatchMsgs ==
    {Msg("ok", "match_result", p[1], p[2], p[3], Null, FALSE, "none")
        : p \in KeySets \X Vals \X OptVals}

OddsMsgs ==
    {Msg("ok", "odds", p[1], p[2], p[3], p[4], FALSE, "none")
        : p \in KeySets \X OptVals \X OptVals \X Stamps}

\* one message of each kind per S3 fault, and per raw file with Float64 integers
TroubleMsgs ==
    {Msg("ok", k, {1}, 1, 1, IF k = "odds" THEN 1 ELSE Null, FALSE, f)
        : k \in Kinds \ {"other"}, f \in Faults \ {"none"}}
    \cup {Msg("ok", k, {1}, 1, 1, IF k = "odds" THEN 1 ELSE Null, TRUE, "none")
        : k \in Kinds \ {"other"}}

Msgs == BadMsgs \cup OtherMsgs \cup BetsMsgs \cup MatchMsgs \cup OddsMsgs
        \cup TroubleMsgs

\* the delta table of a message: create_tables.create_head_to_head_<kind>_lazy
NewRows(m) ==
    IF m.kind = "bets" THEN create_head_to_head_bets_lazy(m.keys, m.a, m.raw_float)
    ELSE IF m.kind = "odds"
         THEN create_head_to_head_odds_lazy(m.keys, m.a, m.b, m.ts, m.raw_float)
    ELSE create_head_to_head_match_lazy(m.keys, m.a, m.b, m.raw_float)

\* ------------------------------------------------------------ process_record
preferir_reciente ==
    {"BetType", "LastOddsId", "LastOdds1", "LastOdds2", "LastCom1", "LastCom2",
     "LastComx"}
preferir_antiguo ==
    {"FirstOddsId", "FirstOdds1", "FirstOdds2", "FirstCom1", "FirstCom2",
     "FirstComx"}

\* load_base_lazyframe: the stored table, or the empty canonical one
load_base_lazyframe(s3) == IF s3 = <<>> THEN empty_head_to_head_lf ELSE s3[1]

\* the dispatch of process_record on table_name
Upsert(kind, base_df, new_rows_df, keep_order) ==
    IF kind = "bets" THEN upsert_bets(base_df, new_rows_df, "MatchId")
    ELSE IF kind = "odds"
         THEN upsert_odds(base_df, new_rows_df, "MatchId", "ModifiedOn",
                          preferir_reciente, preferir_antiguo, keep_order)
    ELSE upsert_match(base_df, new_rows_df, "MatchId")

\* process_record that merges every delta onto the empty table
merge_onto_empty(s3, m, keep_order) ==
    LET base_lf      == empty_head_to_head_lf
        consolidated == Upsert(m.kind, base_lf, NewRows(m), keep_order)
        Raised(e)    == [raised |-> TRUE, err |-> e, ret |-> "", s3 |-> s3]
    IN  IF m.fault = "head" THEN Raised("ClientError")
        ELSE IF m.kind \notin {"bets", "odds", "match_result"}
             THEN [raised |-> FALSE, err |-> "", ret |-> "207", s3 |-> s3]
        ELSE IF m.fault = "collect" THEN Raised("ComputeError")
        ELSE IF consolidated.err /= "ok" THEN Raised(consolidated.err)
        ELSE IF m.fault = "write" THEN Raised("OSError")
        ELSE [raised |-> FALSE, err |-> "", ret |-> "done",
              s3 |-> <<consolidated.tbl>>]

\* process_record with an else branch that raises
raise_unknown_kind(s3, m, keep_order) ==
    LET base_lf      == load_base_lazyframe(s3)
        consolidated == Upsert(m.kind, base_lf, NewRows(m), keep_order)
        Raised(e)    == [raised |-> TRUE, err |-> e, ret |-> "", s3 |-> s3]
    IN  IF m.fault = "head" THEN Raised("ClientError")
        ELSE IF m.kind \notin {"bets", "odds", "match_result"}
             THEN Raised("ValueError")
        ELSE IF m.fault = "collect" THEN Raised("ComputeError")
        ELSE IF consolidated.err /= "ok" THEN Raised(consolidated.err)
        ELSE IF m.fault = "write" THEN Raised("OSError")
        ELSE [raised |-> FALSE, err |-> "", ret |-> "done",
              s3 |-> <<consolidated.tbl>>]

\* process_record(bucket, key) on the stored object s3: what it returns or
\* raises, and the stored object it leaves.
\*   ret "207": the not-found-table result; "done": the source/target result
process_record(s3, m, keep_order) ==
    LET base_lf      == load_base_lazyframe(s3)
        consolidated == Upsert(m.kind, base_lf, NewRows(m), keep_order)
        Raised(e)    == [raised |-> TRUE, err |-> e, ret |-> "", s3 |-> s3]
    IN  IF m.fault = "head" THEN Raised("ClientError")
        ELSE IF m.kind \notin {"bets", "odds", "match_result"}
             THEN [raised |-> FALSE, err |-> "", ret |-> "207", s3 |-> s3]
        ELSE IF m.fault = "collect" THEN Raised("ComputeError")
        ELSE IF consolidated.err /= "ok" THEN Raised(consolidated.err)
        ELSE IF m.fault = "write" THEN Raised("OSError")
        ELSE [raised |-> FALSE, err |-> "", ret |-> "done",
              s3 |-> <<consolidated.tbl>>]

\* the orders polars may sort the rows of this merge in: both when the merge
\* has rows with equal sort keys, which is when a row of the delta has the
\* key and the timestamp of a row of the base
SortOrders(s3, m) ==
    IF /\ m.kind = "odds"
       /\ \E r \in load_base_lazyframe(s3).rows :
             r["MatchId"] \in m.keys /\ r["ModifiedOn"] = m.ts
    THEN {TRUE, FALSE} ELSE {TRUE}

\* ------------------------------------------------------------------- state
VARIABLES
    head_to_head,         \* the object at HEAD_TO_HEAD_S3_URI: <<>> or <<table>>
    position,             \* records of the current event already iterated
    batch_item_failures,  \* lambda_handler's list, as message ids
    results,              \* lambda_handler's list of process_record results
    response,             \* what the last finished invocation gave
    handled,              \* messages handled so far in this run
    last,                 \* the message handled last, and how it ended
    odds_merged,          \* the odds deltas merged so far: <<keys, pre, live, ts>>
    bets_merged,          \* the bets deltas merged so far, in order: <<keys, amount>>
    args,                 \* a direct call of a merge or the validator: its arguments
    out,                  \* what the calls made with args gave, in order
    race                  \* two callers of process_record at once: where each is

handler_vars == <<head_to_head, position, batch_item_failures, results, response,
                  handled, last, odds_merged, bets_merged>>

vars == <<handler_vars, args, out, race>>

NoArgs == [fn |-> "none", base |-> NoTable, delta |-> NoTable,
           delta2 |-> NoTable, flag |-> FALSE]

\* the callers of process_record that run at once, and where none has started
Callers == {1, 2}
NoResult == [raised |-> FALSE, err |-> "", ret |-> "", s3 |-> <<>>]
NoRace ==
    [pc         |-> [c \in Callers |-> "idle"],
     m          |-> [c \in Callers |-> NoMsg],
     exists     |-> [c \in Callers |-> FALSE],
     result     |-> [c \in Callers |-> NoResult],
     overlapped |-> FALSE,
     written    |-> <<>>,
     initial    |-> <<>>]

Last(m, id, outcome) ==
    [shape |-> m.shape, kind |-> m.kind, fault |-> m.fault, id |-> id,
     outcome |-> outcome]

Init ==
    /\ head_to_head = <<>>
    /\ position = 0
    /\ batch_item_failures = <<>>
    /\ results = <<>>
    /\ response = <<"none">>
    /\ handled = 0
    /\ last = Last(NoMsg, 0, "none")
    /\ odds_merged = {}
    /\ bets_merged = <<>>
    /\ args = NoArgs
    /\ out = <<>>
    /\ race = NoRace

\* One iteration of the loop of lambda_handler over event["Records"], on the
\* record m with messageId position + 1.
\*   bad_json       json.loads raises: listed as a failure
\*   no_records     the body holds no S3 record: skipped
\*   no_bucket_key  bucket or key missing: listed as a failure
\*   no_slash       decoded_key.split("/")[1] raises inside process_record
\*   ok             process_record runs
HandleRecord(m, keep_order) ==
    \E result \in {process_record(head_to_head, m, keep_order)} :
    LET id  == position + 1
        failed == \/ m.shape \in {"bad_json", "no_bucket_key", "no_slash"}
                  \/ m.shape = "ok" /\ result.raised
        stored == m.shape = "ok" /\ ~result.raised /\ result.ret = "done"
    IN  /\ m.shape /= "not_object"
        /\ handled' = handled + 1
        /\ position' = id
        /\ head_to_head' = IF stored THEN result.s3 ELSE head_to_head
        /\ batch_item_failures' =
              IF failed THEN Append(batch_item_failures, id)
              ELSE batch_item_failures
        /\ results' = IF m.shape = "ok" /\ ~result.raised
                      THEN Append(results, result.ret) ELSE results
        /\ last' = Last(m, id, IF failed THEN "failed"
                               ELSE IF m.shape = "no_records" THEN "skipped"
                               ELSE result.ret)
        /\ odds_merged' = IF stored /\ m.kind = "odds"
                          THEN odds_merged \cup {<<m.keys, m.a, m.b, m.ts>>}
                          ELSE odds_merged
        /\ bets_merged' = IF stored /\ m.kind = "bets"
                          THEN Append(bets_merged, <<m.keys, m.a>>)
                          ELSE bets_merged
        /\ UNCHANGED <<response, args, out, race>>

\* The body of a record parses to something that is no JSON object (or the
\* record has no body): s3_event.get raises outside any try, and the
\* invocation ends with that exception instead of a response.
HandlerCrash(m) ==
    /\ m.shape = "not_object"
    /\ handled' = handled + 1
    /\ last' = Last(m, position + 1, "crash")
    /\ response' = <<"crash">>
    /\ position' = 0
    /\ batch_item_failures' = <<>>
    /\ results' = <<>>
    /\ UNCHANGED <<head_to_head, odds_merged, bets_merged, args, out, race>>

\* The loop is over: lambda_handler returns {"batchItemFailures": ...}; the
\* next invocation starts with empty lists.
ReturnResponse ==
    /\ position > 0
    /\ response' = <<"response", batch_item_failures>>
    /\ position' = 0
    /\ batch_item_failures' = <<>>
    /\ results' = <<>>
    /\ UNCHANGED <<head_to_head, handled, last, odds_merged, bets_merged, args, out,
                   race>>

\* lambda_handler fed with records of the set msgs, limit of them in a run
lambda_handler(msgs, limit) ==
    \/ /\ handled < limit
       /\ \E m \in msgs : \E keep_order \in SortOrders(head_to_head, m) :
             HandleRecord(m, keep_order)
    \/ /\ handled < limit
       /\ \E m \in msgs : HandlerCrash(m)
    \/ ReturnResponse

Next == lambda_handler(Msgs, MaxMsgs)

Spec == Init /\ [][Next]_vars

\* only odds files arrive
NextOdds ==
    /\ handled < MaxMsgs
    /\ \E m \in OddsMsgs : \E keep_order \in SortOrders(head_to_head, m) :
          HandleRecord(m, keep_order)

SpecOdds == Init /\ [][NextOdds]_vars

\* --------------------------------------------------------------- direct calls
\* The merges and the validator called on their own, on a base table the
\* handler can have stored (or one a caller shaped otherwise) and on the delta
\* of a raw file.
MaxAmount == 2     \* amounts 0..MaxAmount of the bets files of the direct calls

RECURSIVE StoredAfter(_)
\* the object process_record leaves after the files msgs, starting from none
StoredAfter(msgs) ==
    IF msgs = <<>> THEN <<>>
    ELSE process_record(StoredAfter(SubSeq(msgs, 1, Len(msgs) - 1)),
                        msgs[Len(msgs)], TRUE).s3

File(kind, keys, a, b, ts) == Msg("ok", kind, keys, a, b, ts, FALSE, "none")

Histories ==
    { <<>>,
      <<File("match_result", {1}, 1, Null, Null)>>,
      <<File("odds", {1}, 1, Null, 2)>>,
      <<File("odds", {1, 2}, Null, 1, 2)>>,
      <<File("bets", {1}, 2, Null, Null), File("bets", {1}, 2, Null, Null)>>,
      <<File("bets", {1, 2}, 1, Null, Null)>>,
      <<File("match_result", {1, 2}, 1, 1, Null), File("odds", {1}, 1, 1, 2),
        File("bets", {1}, 1, Null, Null)>> }

BaseTables == {load_base_lazyframe(StoredAfter(h)) : h \in Histories}

\* df with the columns of drop removed, the columns of wrong given another
\* dtype, the all-null String columns extras appended, and, if rev, the
\* columns in reverse order
Shaped(df, drop, wrong, extras, rev) ==
    LET kept == SelectSeq(df.cols, LAMBDA c : c \notin drop) \o extras
        cols == IF rev THEN [i \in 1..Len(kept) |-> kept[Len(kept) + 1 - i]]
                ELSE kept
        cs   == Range(cols)
        new  == Range(extras)
    IN  Table(cols,
              [c \in cs |-> IF c \in new THEN "String"
                            ELSE IF c \notin wrong THEN df.dt[c]
                            ELSE IF df.dt[c] = "Int64" THEN "Float64"
                            ELSE "Int64"],
              {[c \in cs |-> IF c \in new THEN Null ELSE r[c]] : r \in df.rows})

WithoutKey(df) == Shaped(df, {"MatchId"}, {}, <<>>, FALSE)

MatchDeltas ==
    {create_head_to_head_match_lazy(p[1], 1, p[2], p[3])
        : p \in KeySets \X OptVals \X BOOLEAN}
BetsDeltas ==
    {create_head_to_head_bets_lazy(p[1], p[2], FALSE)
        : p \in KeySets \X (0..MaxAmount)}
OddsDeltas ==
    {create_head_to_head_odds_lazy(p[1], p[2], p[3], p[4], FALSE)
        : p \in KeySets \X OptVals \X OptVals \X Stamps}

\* an odds delta a caller cut down: a later quote without its FirstOdds1 column
PartialOddsDelta ==
    Shaped(create_head_to_head_odds_lazy({1}, 1, 1, MaxTs, FALSE),
           {"FirstOdds1"}, {}, <<>>, FALSE)

MergeBases ==
    BaseTables \cup {WithoutKey(load_base_lazyframe(StoredAfter(h)))
                        : h \in {<<>>, <<File("bets", {1, 2}, 1, Null, Null)>>}}

ValidatorTables ==
    {Shaped(load_base_lazyframe(StoredAfter(p[1])), p[2], p[3], p[4], p[5])
        : p \in {<<>>, <<File("odds", {1, 2}, Null, 1, 2)>>}
                \X {{}, {"ModifiedOn"}} \X {{}, {"HomeId"}}
                \X {<<>>, <<"zz", "aa">>} \X BOOLEAN}

Call(fn, base, delta, delta2, flag) ==
    [fn |-> fn, base |-> base, delta |-> delta, delta2 |-> delta2, flag |-> flag]

Calls ==
    {Call("upsert_match", b, d, NoTable, FALSE)
        : b \in MergeBases,
          d \in MatchDeltas
                \cup {WithoutKey(create_head_to_head_match_lazy({1}, 1, 1, FALSE))}}
    \cup {Call("upsert_bets", b, d, d2, FALSE)
        : b \in MergeBases,
          d \in BetsDeltas
                \cup {WithoutKey(create_head_to_head_bets_lazy({1}, 1, FALSE))},
          d2 \in BetsDeltas}
    \cup {Call("upsert_odds", b, d, NoTable, keep_order)
        : b \in MergeBases,
          d \in OddsDeltas
                \cup {WithoutKey(create_head_to_head_odds_lazy({1}, 1, 1, 1, FALSE)),
                      PartialOddsDelta},
          keep_order \in BOOLEAN}
    \cup {Call("ordenar_y_validar", t, NoTable, NoTable, permitir_extras)
        : t \in ValidatorTables, permitir_extras \in BOOLEAN}

InitCalls ==
    /\ head_to_head = <<>>
    /\ position = 0
    /\ batch_item_failures = <<>>
    /\ results = <<>>
    /\ response = <<"none">>
    /\ handled = 0
    /\ last = Last(NoMsg, 0, "none")
    /\ odds_merged = {}
    /\ bets_merged = <<>>
    /\ args \in Calls
    /\ out = <<>>
    /\ race = NoRace

\* upsert_match(base, delta), and again on what it returned
CallUpsertMatch ==
    /\ args.fn = "upsert_match"
    /\ out = <<>>
    /\ LET r == upsert_match(args.base, args.delta, "MatchId")
       IN  out' = <<r, IF r.err = "ok" THEN upsert_match(r.tbl, args.delta, "MatchId")
                       ELSE r>>
    /\ UNCHANGED <<handler_vars, args, race>>

\* upsert_bets(base, delta); again on what it returned; delta2 on what it
\* returned; and delta on what upsert_bets(base, delta2) returned
CallUpsertBets ==
    /\ args.fn = "upsert_bets"
    /\ out = <<>>
    /\ LET Then(x, d) == IF x.err = "ok" THEN upsert_bets(x.tbl, d, "MatchId")
                         ELSE x
           r == upsert_bets(args.base, args.delta, "MatchId")
           s == upsert_bets(args.base, args.delta2, "MatchId")
       IN  out' = <<r, Then(r, args.delta), Then(r, args.delta2),
                    Then(s, args.delta)>>
    /\ UNCHANGED <<handler_vars, args, race>>

\* upsert_odds(base, delta) with the column sets of process_record
CallUpsertOdds ==
    /\ args.fn = "upsert_odds"
    /\ out = <<>>
    /\ out' = <<upsert_odds(args.base, args.delta, "MatchId", "ModifiedOn",
                            preferir_reciente, preferir_antiguo, args.flag)>>
    /\ UNCHANGED <<handler_vars, args, race>>

\* ordenar_y_validar(df, head_to_head_schema(), permitir_extras=flag)
CallValidar ==
    /\ args.fn = "ordenar_y_validar"
    /\ out = <<>>
    /\ out' = <<ordenar_y_validar(args.base, head_to_head_schema, args.flag)>>
    /\ UNCHANGED <<handler_vars, args, race>>

NextCalls ==
    \/ CallUpsertMatch
    \/ CallUpsertBets
    \/ CallUpsertOdds
    \/ CallValidar

SpecCalls == InitCalls /\ [][NextCalls]_vars

\* ------------------------------------------------------------ two callers
\* Two callers (two invocations of the lambda) run process_record on the one
\* object at HEAD_TO_HEAD_S3_URI.  The calls of a caller that touch the object
\* are steps of their own, and the steps of the two interleave freely:
\*   RaceCheck    s3.head_object in load_base_lazyframe, then the dispatch
\*   RaceCollect  base_lf.collect reads the object; the merge follows
\*   RaceWrite    write_parquet replaces the object
\* race.pc is where a caller is: "idle", "checked", "merged", "done".
\* race.overlapped: a caller started while the other was between its check
\* and its end.  race.written: the files stored, in the order of the writes.
RaceMsgs ==
    BetsMsgs \cup MatchMsgs \cup OtherMsgs \cup TroubleMsgs
    \cup {File("odds", ks, 1, 1, ts) : ks \in KeySets, ts \in {1, MaxTs}}

RaceStarts ==
    {StoredAfter(h) :
        h \in {<<>>,
               <<File("match_result", {1, 2}, 1, 1, Null), File("odds", {1}, 1, 1, 2),
                 File("bets", {1}, 1, Null, Null)>>}}

InitRace ==
    /\ head_to_head \in RaceStarts
    /\ position = 0
    /\ batch_item_failures = <<>>
    /\ results = <<>>
    /\ response = <<"none">>
    /\ handled = 0
    /\ last = Last(NoMsg, 0, "none")
    /\ odds_merged = {}
    /\ bets_merged = <<>>
    /\ args = NoArgs
    /\ out = <<>>
    /\ race = [NoRace EXCEPT !.initial = head_to_head]

InCycle(c) == race.pc[c] \in {"checked", "merged"}

\* caller c starts process_record on the file m: the existence check of the
\* stored table, then the dispatch on the kind tag.  A failed check raises and
\* an unknown kind returns, both before the table is read.
RaceCheck(c, m) ==
    /\ race.pc[c] = "idle"
    /\ m.shape = "ok"
    /\ LET ends == m.fault = "head" \/ m.kind \notin {"bets", "odds", "match_result"}
       IN  race' = [race EXCEPT
                      !.pc[c] = IF ends THEN "done" ELSE "checked",
                      !.m[c] = m,
                      !.exists[c] = head_to_head /= <<>>,
                      !.result[c] = IF ends THEN process_record(head_to_head, m, TRUE)
                                    ELSE NoResult,
                      !.overlapped = race.overlapped
                                     \/ \E o \in Callers \ {c} : InCycle(o)]
    /\ UNCHANGED <<handler_vars, args, out>>

\* caller c collects the base (the object as it is now if the check found
\* one, the empty table if not) and the delta, and merges them.  What raises
\* before the write ends the call here.
RaceCollect(c, keep_order) ==
    /\ race.pc[c] = "checked"
    /\ LET seen == IF race.exists[c] THEN head_to_head ELSE <<>>
       IN  /\ keep_order \in SortOrders(seen, race.m[c])
           /\ \E result \in {process_record(seen, race.m[c], keep_order)} :
                 race' = [race EXCEPT
                            !.pc[c] = IF result.raised /\ result.err /= "OSError"
                                      THEN "done" ELSE "merged",
                            !.result[c] = result]
    /\ UNCHANGED <<handler_vars, args, out>>

\* caller c writes the table it merged over the stored object and returns,
\* or the write raises
RaceWrite(c) ==
    /\ race.pc[c] = "merged"
    /\ head_to_head' = IF race.result[c].raised THEN head_to_head
                       ELSE race.result[c].s3
    /\ race' = [race EXCEPT
                  !.pc[c] = "done",
                  !.written = IF race.result[c].raised THEN race.written
                              ELSE Append(race.written, race.m[c])]
    /\ UNCHANGED <<position, batch_item_failures, results, response, handled, last,
                   odds_merged, bets_merged, args, out>>

NextRace ==
    \E c \in Callers :
        \/ \E m \in RaceMsgs : RaceCheck(c, m)
        \/ \E keep_order \in BOOLEAN : RaceCollect(c, keep_order)
        \/ RaceWrite(c)

SpecRace == InitRace /\ [][NextRace]_vars

\* --------------------------------------------------------------- properties
KeyOf(r) == IF "MatchId" \in DOMAIN r THEN r["MatchId"] ELSE Null
ValueAt(r, c) == IF c \in DOMAIN r THEN r[c] ELSE Null
RowsOf(df, k) == {r \in df.rows : KeyOf(r) = k}
\* the value of column c in df's row of key k; null when df has no such row
Side(df, k, c) ==
    IF RowsOf(df, k) = {} THEN Null ELSE ValueAt(CHOOSE r \in RowsOf(df, k) : TRUE, c)
StoredRows == load_base_lazyframe(head_to_head).rows
Merges == {"upsert_match", "upsert_bets", "upsert_odds"}
Accumulators == {"TurnOver_SGD", "Winlost_SGD"}

\* the rows of every odds delta merged so far
OddsRowsMerged ==
    UNION {create_head_to_head_odds_lazy(d[1], d[2], d[3], d[4], FALSE).rows
              : d \in odds_merged}

\* C1: after any sequence of odds merges from the empty table, every stored
\* row holds, in every oldest-wins column, the non-null value of the delta row
\* with the smallest timestamp among the delta rows merged for its match id
\* (null when none has a value).  Stated for the match ids whose delta rows
\* all differ in timestamp, where no tie is left to the sort.
C1_OldestWinsAcrossMerges ==
    \A r \in StoredRows : \A c \in preferir_antiguo :
        LET all   == {d \in OddsRowsMerged : d["MatchId"] = r["MatchId"]}
            cand  == {d \in all : d[c] /= Null}
            first == {d \in cand :
                         \A e \in cand : d["ModifiedOn"] <= e["ModifiedOn"]}
        IN  (\A d, e \in all : d /= e => d["ModifiedOn"] /= e["ModifiedOn"]) =>
                IF cand = {} THEN r[c] = Null ELSE r[c] \in {d[c] : d \in first}

\* a base row and a delta row of one key with two different timestamps
TwoCandidates(rb, rd) ==
    /\ KeyOf(rb) /= Null
    /\ KeyOf(rb) = KeyOf(rd)
    /\ ValueAt(rb, "ModifiedOn") /= Null
    /\ ValueAt(rd, "ModifiedOn") /= Null
    /\ rb["ModifiedOn"] /= rd["ModifiedOn"]
Later(rb, rd)   == IF rb["ModifiedOn"] > rd["ModifiedOn"] THEN rb ELSE rd
Earlier(rb, rd) == IF rb["ModifiedOn"] > rd["ModifiedOn"] THEN rd ELSE rb

\* C2: in one upsert_odds, for a key with two candidate rows of different
\* timestamps and a column outside the oldest-wins set, the result is the value
\* of the later row when it is non-null and else the value of the earlier row
\* (so it is null only when both are null).
C2_RecentWins ==
    (args.fn = "upsert_odds" /\ out /= <<>> /\ out[1].err = "ok") =>
        \A rb \in args.base.rows : \A rd \in args.delta.rows :
            TwoCandidates(rb, rd) =>
                /\ Cardinality(RowsOf(out[1].tbl, KeyOf(rb))) = 1
                /\ \A res \in RowsOf(out[1].tbl, KeyOf(rb)) :
                   \A c \in Range(out[1].tbl.cols) \ (preferir_antiguo \cup {"MatchId"}) :
                      res[c] = IF ValueAt(Later(rb, rd), c) /= Null
                               THEN ValueAt(Later(rb, rd), c)
                               ELSE ValueAt(Earlier(rb, rd), c)

\* an upsert_odds that fell back to the earlier row's value of a recent-wins
\* column because the later row's is null
C2_FellBackToEarlier ==
    /\ args.fn = "upsert_odds" /\ out /= <<>> /\ out[1].err = "ok"
    /\ \E rb \in args.base.rows : \E rd \in args.delta.rows :
          /\ TwoCandidates(rb, rd)
          /\ \E c \in preferir_reciente : \E res \in RowsOf(out[1].tbl, KeyOf(rb)) :
                /\ ValueAt(Later(rb, rd), c) = Null
                /\ ValueAt(Earlier(rb, rd), c) /= Null
                /\ res[c] = ValueAt(Earlier(rb, rd), c)

\* C3: upsert_match applied again with the same delta to what it returned
\* returns the same table: the same columns, rows and values.
C3_ReplaceIdempotent ==
    (args.fn = "upsert_match" /\ out /= <<>> /\ out[1].err = "ok") =>
        /\ out[2].err = "ok"
        /\ out[2].tbl = out[1].tbl

\* an upsert_match whose delta filled in a value the base row did not hold,
\* applied twice
C3_ReplacedThenSame ==
    /\ args.fn = "upsert_match" /\ out /= <<>> /\ out[1].err = "ok"
    /\ out[2] = out[1]
    /\ \E rb \in args.base.rows : \E rd \in args.delta.rows :
          /\ KeyOf(rb) /= Null /\ KeyOf(rb) = KeyOf(rd)
          /\ \E c \in DOMAIN rd : rd[c] /= Null /\ rb[c] /= rd[c]
          /\ \E res \in RowsOf(out[2].tbl, KeyOf(rb)) :
                \A c \in DOMAIN rd : rd[c] /= Null => res[c] = rd[c]

\* C4: upsert_bets returns one row for every key of base or delta, and in it
\* every overlapping non-key column holds coalesce(base, 0) + coalesce(delta, 0),
\* the + of the column's dtype, a side without a row for the key counting null.
C4_AdditiveSum ==
    (args.fn = "upsert_bets" /\ out /= <<>> /\ out[1].err = "ok") =>
        LET b == args.base
            d == args.delta
            overlap == (Range(b.cols) \cap Range(d.cols)) \ {"MatchId"}
            keys == {KeyOf(r) : r \in b.rows \cup d.rows} \ {Null}
            Sum(x, y, c) == IF b.dt[c] = "Float64" THEN RoundFloat(x + y) ELSE x + y
        IN  \A k \in keys :
               /\ Cardinality(RowsOf(out[1].tbl, k)) = 1
               /\ \A res \in RowsOf(out[1].tbl, k) : \A c \in overlap :
                     res[c] = Sum(coalesce(Side(b, k, c), 0),
                                  coalesce(Side(d, k, c), 0), c)

\* an upsert_bets that added a delta amount to a base total, both non-zero
C4_AddedToTotal ==
    /\ args.fn = "upsert_bets" /\ out /= <<>> /\ out[1].err = "ok"
    /\ \E rb \in args.base.rows : \E rd \in args.delta.rows :
          /\ KeyOf(rb) /= Null /\ KeyOf(rb) = KeyOf(rd)
          /\ rb["TurnOver_SGD"] /= Null /\ rb["TurnOver_SGD"] > 0
          /\ rd["TurnOver_SGD"] > 0
          /\ \E res \in RowsOf(out[1].tbl, KeyOf(rb)) :
                res["TurnOver_SGD"] = rb["TurnOver_SGD"] + rd["TurnOver_SGD"]

\* key and accumulator columns of a table
Totals(t) ==
    {[c \in Accumulators \cup {"MatchId"} |-> r[c]] : r \in t.rows}
BothOrders == args.fn = "upsert_bets" /\ out /= <<>> /\ out[3].err = "ok"
              /\ out[4].err = "ok"
\* no sum on the way to the total of key k, column c is rounded
ExactSums(k, c) ==
    LET x  == coalesce(Side(args.base, k, c), 0)
        y1 == coalesce(Side(args.delta, k, c), 0)
        y2 == coalesce(Side(args.delta2, k, c), 0)
    IN  /\ RoundFloat(x + y1) = x + y1
        /\ RoundFloat(x + y2) = x + y2
        /\ RoundFloat(x + y1 + y2) = x + y1 + y2

\* C5 as stated: merging D1 then D2 with upsert_bets gives the same keys and
\* the same totals in the accumulator columns as merging D2 then D1.
C5_OrderIndependent ==
    BothOrders => Totals(out[3].tbl) = Totals(out[4].tbl)

\* C5, amended: merging D1 then D2 gives the same key set as D2 then D1, and
\* the same total for every key and accumulator column whose Float64 sums are
\* exact (none is rounded) in both orders.
C5_OrderIndependentWhenExact ==
    BothOrders =>
        /\ {KeyOf(r) : r \in out[3].tbl.rows} = {KeyOf(r) : r \in out[4].tbl.rows}
        /\ \A k \in {KeyOf(r) : r \in out[3].tbl.rows} \ {Null} :
           \A c \in Accumulators :
               ExactSums(k, c) =>
                   Side(out[3].tbl, k, c) = Side(out[4].tbl, k, c)

\* two deltas of different non-zero amounts for a key the base holds a total
\* for, merged in both orders without rounding
C5_TwoAmountsBothOrders ==
    /\ BothOrders
    /\ \E k \in Matches :
          /\ Side(args.base, k, "TurnOver_SGD") /= Null
          /\ Side(args.base, k, "TurnOver_SGD") > 0
          /\ Side(args.delta, k, "TurnOver_SGD") /= Null
          /\ Side(args.delta2, k, "TurnOver_SGD") /= Null
          /\ Side(args.delta, k, "TurnOver_SGD") > Side(args.delta2, k, "TurnOver_SGD")
          /\ Side(args.delta2, k, "TurnOver_SGD") > 0
          /\ ExactSums(k, "TurnOver_SGD")
          /\ Side(out[3].tbl, k, "TurnOver_SGD") = Side(out[4].tbl, k, "TurnOver_SGD")
          /\ Side(out[3].tbl, k, "TurnOver_SGD") =
                Side(args.base, k, "TurnOver_SGD")
                + Side(args.delta, k, "TurnOver_SGD")
                + Side(args.delta2, k, "TurnOver_SGD")

RECURSIVE BetsTotal(_, _)
\* the total the bets deltas of seq add up to for key k, in their order,
\* each sum rounded as a Float64 sum is; null when none holds k
BetsTotal(seq, k) ==
    IF seq = <<>> THEN Null
    ELSE LET t == BetsTotal(SubSeq(seq, 1, Len(seq) - 1), k)
             d == seq[Len(seq)]
         IN  IF k \in d[1] THEN RoundFloat((IF t = Null THEN 0 ELSE t) + d[2])
             ELSE t

\* the last two bets deltas merged are one delta, delivered twice
DeliveredTwice ==
    /\ Len(bets_merged) >= 2
    /\ bets_merged[Len(bets_merged)] = bets_merged[Len(bets_merged) - 1]

\* C6: when the same bets notification is processed successfully twice, the
\* stored totals of its matches count its amount twice: each is the total
\* before the first delivery plus the amount plus the amount again.
C6_CountedTwice ==
    DeliveredTwice =>
        LET n      == Len(bets_merged)
            d      == bets_merged[n]
            before == SubSeq(bets_merged, 1, n - 2)
        IN  \A k \in d[1] : \A c \in Accumulators :
               LET t == BetsTotal(before, k)
               IN  Side(load_base_lazyframe(head_to_head), k, c) =
                      RoundFloat(RoundFloat((IF t = Null THEN 0 ELSE t) + d[2]) + d[2])

\* a bets delta delivered twice onto a stored total, which ends up different
\* from the total one delivery gives
C6_TotalChangedByRedelivery ==
    /\ DeliveredTwice
    /\ Len(bets_merged) = 3
    /\ \E k \in bets_merged[3][1] :
          /\ BetsTotal(SubSeq(bets_merged, 1, 1), k) /= Null
          /\ Side(load_base_lazyframe(head_to_head), k, "TurnOver_SGD") /=
                BetsTotal(SubSeq(bets_merged, 1, 2), k)
          /\ Side(load_base_lazyframe(head_to_head), k, "TurnOver_SGD") =
                BetsTotal(bets_merged, k)

\* C7: a merge called with a delta that lacks the primary key column raises
\* the missing-key error and returns no table, whatever the base.
C7_MissingKeyRaises ==
    (args.fn \in Merges /\ out /= <<>> /\ "MatchId" \notin Range(args.delta.cols)) =>
        /\ out[1].err \in {ErrMissingKey, ErrMissingPk}
        /\ out[1].tbl = NoTable

\* the canonical columns df lacks, those it holds with another dtype, and its
\* other columns in their order
MissingColumns(df) ==
    {c \in Range(head_to_head_schema.cols) : c \notin Range(df.cols)}
WrongTyped(df) ==
    {c \in Range(head_to_head_schema.cols) \cap Range(df.cols) :
        df.dt[c] /= head_to_head_schema.dt[c]}
ExtraColumns(df) ==
    SelectSeq(df.cols, LAMBDA c : c \notin Range(head_to_head_schema.cols))
\* r is df with the canonical columns first, in canonical order, the extras
\* after in df's order, and df's rows
Reordered(df, r) ==
    /\ r.err = "ok"
    /\ r.tbl.cols = head_to_head_schema.cols \o ExtraColumns(df)
    /\ r.tbl.dt = df.dt
    /\ r.tbl.rows = df.rows
Validated == args.fn = "ordenar_y_validar" /\ out /= <<>>

\* C8 as stated: a table missing a canonical column fails with the
\* missing-columns error, a table with a wrong-typed canonical column with the
\* type-mismatch error, a table with other columns with the unexpected-columns
\* error when extras are not allowed; a table that passes comes back reordered
\* and otherwise unchanged.
C8_FailuresClassified ==
    Validated =>
        /\ MissingColumns(args.base) /= {} => out[1].err = ErrMissingColumns
        /\ WrongTyped(args.base) /= {} => out[1].err = ErrTypeMismatch
        /\ (ExtraColumns(args.base) /= <<>> /\ ~args.flag) =>
               out[1].err = ErrUnexpectedColumns
        /\ out[1].err = "ok" => Reordered(args.base, out[1])

\* C8, amended: the three checks run in order and the first that fails names
\* the error: missing-columns; else type-mismatch; else unexpected-columns
\* when extras are not allowed; else the table comes back reordered and
\* otherwise unchanged.
C8_FirstFailureClassified ==
    Validated =>
        IF MissingColumns(args.base) /= {} THEN out[1].err = ErrMissingColumns
        ELSE IF WrongTyped(args.base) /= {} THEN out[1].err = ErrTypeMismatch
        ELSE IF ExtraColumns(args.base) /= <<>> /\ ~args.flag
             THEN out[1].err = ErrUnexpectedColumns
        ELSE Reordered(args.base, out[1])

\* a table both missing a canonical column and holding a wrong-typed one,
\* refused for the missing column
C8_MissingBeforeWrongTyped ==
    /\ Validated
    /\ MissingColumns(args.base) /= {}
    /\ WrongTyped(args.base) /= {}
    /\ out[1].err = ErrMissingColumns

\* the step handled a record of another kind tag than bets, odds, match_result
UnknownKindHandled ==
    /\ handled' = handled + 1
    /\ last'.shape = "ok"
    /\ last'.kind = "other"
\* the step stored nothing, listed no failure and returned the 207 result
NonErrorOutcome ==
    /\ head_to_head' = head_to_head
    /\ batch_item_failures' = batch_item_failures
    /\ results' = Append(results, "207")
    /\ last'.outcome = "207"

C10_UniqueMatchId ==
    \A r1, r2 \in StoredRows : r1["MatchId"] = r2["MatchId"] => r1 = r2

\* a stored table of two rows that files of all three kinds were merged into
C10_TwoRowsThreeKinds ==
    /\ Cardinality(StoredRows) = 2
    /\ odds_merged /= {}
    /\ bets_merged /= <<>>
    /\ last.kind = "match_result" /\ last.outcome = "done"
    /\ \E r \in StoredRows : r["HomeId"] /= Null /\ r["FirstOdds1"] /= Null
                             /\ r["TurnOver_SGD"] /= Null

\* the non-key columns of the base that the delta of the call does not carry
Untouched == Range(args.base.cols) \ (Range(args.delta.cols) \cup {"MatchId"})
Merged == args.fn \in Merges /\ out /= <<>> /\ out[1].err = "ok"

\* C11: a merge of any of the three kinds returns, for every row of the base
\* and every non-key column the delta does not carry, the value the base row
\* held: the row of that key in the result (the only one, when the key is not
\* null) holds it.
C11_UntouchedColumnsKept ==
    Merged =>
        \A rb \in args.base.rows : \A c \in Untouched :
            /\ \E res \in RowsOf(out[1].tbl, KeyOf(rb)) : res[c] = rb[c]
            /\ KeyOf(rb) /= Null =>
                   \A res \in RowsOf(out[1].tbl, KeyOf(rb)) : res[c] = rb[c]

\* an odds delta without FirstOdds1 merged onto a row that holds one: the
\* FirstOdds1 of the base stays while LastOdds1 becomes the delta's
C11_FirstOddsKeptLastOddsTaken ==
    /\ Merged /\ args.fn = "upsert_odds"
    /\ "FirstOdds1" \in Untouched
    /\ \E rb \in args.base.rows : \E rd \in args.delta.rows :
          /\ TwoCandidates(rb, rd)
          /\ rb["FirstOdds1"] /= Null
          /\ rd["LastOdds1"] /= Null /\ rd["LastOdds1"] /= rb["LastOdds1"]
          /\ \E res \in RowsOf(out[1].tbl, KeyOf(rb)) :
                /\ res["FirstOdds1"] = rb["FirstOdds1"]
                /\ res["LastOdds1"] = rd["LastOdds1"]

\* every caller is through, and the callers that returned the source/target
\* result
AllDone == \A c \in Callers : race.pc[c] = "done"
Succeeded == {c \in Callers : race.pc[c] = "done" /\ ~race.result[c].raised
                               /\ race.result[c].ret = "done"}
RaceStored == load_base_lazyframe(head_to_head)

RECURSIVE TotalFrom(_, _, _)
\* the total of key k that starts at t0 and takes the amounts of the bets
\* files of seq that hold k, in their order, a null counting 0
TotalFrom(t0, seq, k) ==
    IF seq = <<>> THEN coalesce(t0, 0)
    ELSE LET t == TotalFrom(t0, SubSeq(seq, 1, Len(seq) - 1), k)
             m == seq[Len(seq)]
         IN  IF m.kind = "bets" /\ k \in m.keys THEN RoundFloat(t + m.a) ELSE t

\* the value the match files written give match k: that of the last file that
\* holds k (score: the last that holds a score for k)
MatchValue(k, score) ==
    LET idx == {i \in 1..Len(race.written) :
                   /\ race.written[i].kind = "match_result"
                   /\ k \in race.written[i].keys
                   /\ score => race.written[i].b /= Null}
        i   == CHOOSE x \in idx : \A y \in idx : y <= x
    IN  IF idx = {} THEN Null
        ELSE IF score THEN race.written[i].b ELSE race.written[i].a

\* the stored table shows the file m of the files written: a row for each of
\* its match ids; for a bets file, totals that count the amounts of all bets
\* files written; for a match file, its values; for an odds file, a
\* ModifiedOn no earlier than its timestamp
Reflected(m) ==
    \A k \in m.keys :
        /\ RowsOf(RaceStored, k) /= {}
        /\ m.kind = "bets" =>
              \A c \in Accumulators :
                  coalesce(Side(RaceStored, k, c), 0) =
                      TotalFrom(Side(load_base_lazyframe(race.initial), k, c),
                                race.written, k)
        /\ m.kind = "match_result" =>
              /\ Side(RaceStored, k, "HomeId") = MatchValue(k, FALSE)
              /\ m.b /= Null =>
                     Side(RaceStored, k, "FinalHomeScore") = MatchValue(k, TRUE)
        /\ m.kind = "odds" =>
              /\ Side(RaceStored, k, "ModifiedOn") /= Null
              /\ Side(RaceStored, k, "ModifiedOn") >= m.ts

\* C12: when the two callers are through, every file a caller processed
\* successfully shows in the stored table, unless the two load-merge-store
\* cycles overlapped (one caller started while the other was between its
\* check and its end); nothing in the cycle keeps them from overlapping.
C12_SerializedNothingLost ==
    (AllDone /\ ~race.overlapped) =>
        /\ Len(race.written) = Cardinality(Succeeded)
        /\ \A c \in Succeeded : Reflected(race.m[c])

\* the lost update: two bets files for one match, both callers return the
\* success result, and the stored total holds the amount of one file only
C12_LostUpdate ==
    /\ AllDone /\ Succeeded = Callers /\ race.overlapped
    /\ \A c \in Callers : race.m[c].kind = "bets" /\ race.m[c].a > 0
    /\ \E k \in Matches :
          /\ \A c \in Callers : k \in race.m[c].keys
          /\ Side(load_base_lazyframe(race.initial), k, "TurnOver_SGD") /= Null
          /\ Side(RaceStored, k, "TurnOver_SGD") =
                Side(load_base_lazyframe(race.initial), k, "TurnOver_SGD")
                + race.written[2].a
          /\ ~Reflected(race.m[1])

\* the step took a record of the batch
RecordTaken == handled' = handled + 1
\* the record taken is one the claim lists as failing: its body does not
\* parse, it lacks bucket or key, or process_record raised on it
FailingRecord ==
    \/ last'.shape \in {"bad_json", "no_bucket_key"}
    \/ last'.shape \in {"ok", "no_slash"} /\ last'.outcome = "failed"

\* C13: every batch ends with the partial-batch response.  Each record taken
\* is listed in batchItemFailures once, at its turn, when its body does not
\* parse, it lacks bucket or key or process_record raises on it, and is not
\* listed otherwise; after it the loop goes on to the next record of the
\* batch; and what an invocation gives at its end is the response with the
\* list.
C13_PartialBatchResponse ==
    [][/\ RecordTaken =>
            /\ position' = position + 1
            /\ batch_item_failures' =
                  IF FailingRecord THEN Append(batch_item_failures, position + 1)
                  ELSE batch_item_failures
       /\ response' /= response =>
            response' = <<"response", batch_item_failures>>]_vars

\* C14: no step of the handler, whatever the kind of the file it merges,
\* turns a known cell of the stored table into a null: a row that holds a
\* non-null value in a non-key column before the step has, after it, a row of
\* the same match id with a non-null value in that column.
C14_NeverLostToNull ==
    [][\A r \in StoredRows : \A c \in DOMAIN r \ {"MatchId"} :
          r[c] /= Null =>
              \E q \in load_base_lazyframe(head_to_head').rows :
                  q["MatchId"] = r["MatchId"] /\ q[c] /= Null]_vars

\* the file merged last is an odds file, the only odds file so far, with no
\* pre-match quote; it was merged onto a row that held match values and a
\* final score, which the row still holds, next to the odds values
C14_KnownCellsSurvived ==
    /\ last.kind = "odds" /\ last.outcome = "done"
    /\ \E d \in odds_merged :
          /\ odds_merged = {d}
          /\ d[2] = Null
          /\ \E r \in StoredRows :
                /\ r["MatchId"] \in d[1]
                /\ r["HomeId"] /= Null
                /\ r["FinalHomeScore"] /= Null
                /\ r["TurnOver_SGD"] /= Null
                /\ r["FirstOddsId"] = Null
                /\ r["ModifiedOn"] = d[4]

====
